---- MODULE Spec2Model ----
(***************************************************************************)
(* A model of src/combine.py: the concurrent file aggregator.  A run loads *)
(* the global and the target .combineignore, removes stale outputs, walks  *)
(* the aggregation root, reads the candidates on a thread pool, sorts and  *)
(* writes the combined file, renders the tree and prepends it.             *)
(*                                                                         *)
(* Text is modelled as sequences of one-character strings, so that string  *)
(* order, lower(), strip() and glob matching are computed, not assumed.    *)
(* A path relative to the aggregation root is a sequence of names.         *)
(***************************************************************************)
EXTENDS Integers, Sequences, FiniteSets, TLC

(* ------------------------------------------------------------------ *)
(* Bounds of the model.                                                 *)
(* ------------------------------------------------------------------ *)

\* At most this many files exist under the root when the walk starts.
MaxFiles == 3
\* --max-workers ranges over 1..MaxPool.
MaxPool == 2
\* At most this many files are deleted by the environment during a run.
MaxDeletes == 1
\* At most this many inputs of a run depart from the plain run (see Init).
MaxVariations == 2

(* ------------------------------------------------------------------ *)
(* Characters and strings.                                              *)
(* ------------------------------------------------------------------ *)

\* The code point of a character (Python compares str by code point).
Ord(c) ==
  CASE c = " " -> 32 [] c = "!" -> 33 [] c = "#" -> 35 [] c = "*" -> 42
    [] c = "-" -> 45 [] c = "." -> 46 [] c = "/" -> 47 [] c = "B" -> 66
    [] c = "a" -> 97 [] c = "b" -> 98 [] c = "c" -> 99 [] c = "d" -> 100
    [] c = "e" -> 101 [] c = "g" -> 103 [] c = "h" -> 104 [] c = "i" -> 105
    [] c = "l" -> 108 [] c = "m" -> 109 [] c = "n" -> 110 [] c = "o" -> 111
    [] c = "p" -> 112 [] c = "r" -> 114 [] c = "t" -> 116 [] c = "u" -> 117
    [] c = "x" -> 120

\* str.lower() on one character: only "B" is upper case in the alphabet.
LowerChar(c) == IF c = "B" THEN "b" ELSE c

Lower(s) == [i \in 1..Len(s) |-> LowerChar(s[i])]

\* s < t for Python str: the first differing code point decides, a proper
\* prefix is smaller.
RECURSIVE StrLess(_, _)
StrLess(s, t) ==
  IF t = <<>> THEN FALSE
  ELSE IF s = <<>> THEN TRUE
  ELSE IF Head(s) = Head(t) THEN StrLess(Tail(s), Tail(t))
  ELSE Ord(Head(s)) < Ord(Head(t))

\* "/".join(parts)
RECURSIVE JoinSlash(_)
JoinSlash(parts) ==
  IF parts = <<>> THEN <<>>
  ELSE IF Len(parts) = 1 THEN parts[1]
  ELSE parts[1] \o <<"/">> \o JoinSlash(Tail(parts))

\* str.strip(): leading and trailing blanks removed.
RECURSIVE LStrip(_)
LStrip(s) == IF s # <<>> /\ Head(s) = " " THEN LStrip(Tail(s)) ELSE s

RECURSIVE RStrip(_)
RStrip(s) ==
  IF s # <<>> /\ s[Len(s)] = " " THEN RStrip(SubSeq(s, 1, Len(s) - 1)) ELSE s

Strip(s) == RStrip(LStrip(s))

(* ------------------------------------------------------------------ *)
(* The names of the modelled tree.                                      *)
(* ------------------------------------------------------------------ *)

n_a == <<"a">>
n_b == <<"b">>
n_a_b == <<"a", "-", "b">>
n_Build == <<"B", "u", "i", "l", "d">>
n_debug == <<"d", "e", "b", "u", "g">>
n_important_log == <<"i", "m", "p", "o", "r", "t", "a", "n", "t", ".", "l", "o", "g">>
n_other_log == <<"o", "t", "h", "e", "r", ".", "l", "o", "g">>
n_combined_txt == <<"c", "o", "m", "b", "i", "n", "e", "d", ".", "t", "x", "t">>
n_tree_txt == <<"t", "r", "e", "e", ".", "t", "x", "t">>
n_debug_log == <<"d", "e", "b", "u", "g", ".", "l", "o", "g">>
n_combineignore == <<".", "c", "o", "m", "b", "i", "n", "e", "i", "g", "n", "o", "r", "e">>

\* Paths relative to the aggregation root.
p_a == <<n_a>>
p_Build == <<n_Build>>
p_debug == <<n_debug>>
p_a_b == <<n_a, n_b>>
p_a_dash_b == <<n_a_b>>
p_important == <<n_important_log>>
p_other == <<n_other_log>>
p_Build_important == <<n_Build, n_important_log>>
p_combined == <<n_debug, n_combined_txt>>
p_tree == <<n_debug, n_tree_txt>>
p_debuglog == <<n_debug, n_debug_log>>
p_combineignore == <<n_combineignore>>

Root == <<>>

\* The files a run may find under the root, apart from its own artifacts.
UserFiles == {p_a_b, p_a_dash_b, p_important, p_other, p_Build_important}
ArtifactFiles == {p_combined, p_tree, p_debuglog}
AllFiles == UserFiles \cup ArtifactFiles
UserDirs == {p_a, p_Build}
AllDirs == UserDirs \cup {p_debug}

Parent(p) == SubSeq(p, 1, Len(p) - 1)
Name(p) == p[Len(p)]

(* ------------------------------------------------------------------ *)
(* The state of a run.                                                  *)
(* ------------------------------------------------------------------ *)

VARIABLES
  pc,                \* where main() stands
  args,              \* the parsed command line
  rule_files,        \* the global and the target .combineignore on disk
  files,             \* the regular files that exist under the root
  st_size,           \* the size in bytes of each file
  listing,           \* per directory: does listing it succeed
  path_match_cache,  \* the module-level decision cache
  global_pathspec,
  target_pathspec,
  combined_pathspec,
  files_to_process,  \* the candidate list of traverse_and_collect_files
  futures,           \* per submitted candidate: the state of its task
  combined_contents, \* the (path, content) list main() collects and sorts
  output_file,       \* the combined output on disk
  tree_file,         \* the tree file on disk
  tree_output,       \* the rendered tree text
  exit_status,       \* the exit status of the process, once it has ended
  log,               \* the messages logged so far, as a set of tags
  deletes,           \* how many files the environment has deleted
  query              \* the last call of cached_should_exclude (SpecCache)

vars == <<pc, args, rule_files, files, st_size, listing, path_match_cache,
          global_pathspec, target_pathspec, combined_pathspec,
          files_to_process, futures, combined_contents, output_file,
          tree_file, tree_output, exit_status, log, deletes, query>>

(* ------------------------------------------------------------------ *)
(* The file system as the run sees it.                                  *)
(* ------------------------------------------------------------------ *)

\* With no --directory the root is Path("."), and the default --output,
\* --tree and --debug (debug/combined.txt, debug/tree.txt, debug/debug.log)
\* resolve below it; with --directory they lie outside the root.
ArtifactsUnderRoot == args.directory = "default"

\* The target rule file, parent_dir / ".combineignore", is a file of the
\* root.  debug_folder.mkdir() and setup_logging() precede every listing, so the
\* debug directory and the debug log exist for the walk and the rendering.
Dirs == UserDirs \cup (IF ArtifactsUnderRoot THEN {p_debug} ELSE {})

ExistingFiles ==
  files \cup
  (IF rule_files.target.exists THEN {p_combineignore} ELSE {}) \cup
  (IF ArtifactsUnderRoot
   THEN {p_debuglog}
          \cup (IF output_file.state # "absent" THEN {p_combined} ELSE {})
          \cup (IF tree_file.state # "absent" THEN {p_tree} ELSE {})
   ELSE {})

\* entry.stat().st_size; the run's own artifacts are small.
StatSize(file_path) ==
  IF file_path \in DOMAIN st_size THEN st_size[file_path] ELSE 0

\* The value st_size holds for a file whose stat() raises: the file is
\* listed by its directory, which the user may read but not search.
StatError == 0 - 1

\* file_path.stat() raises (PermissionError, an OSError).
StatRaises(file_path) ==
  file_path \in DOMAIN st_size /\ st_size[file_path] = StatError

\* The children of a directory, as os.scandir / Path.iterdir list them.
Entries(directory) ==
  {p \in Dirs \cup ExistingFiles : Parent(p) = directory}

\* sorted(S, key=name.lower()): no two names of one directory of the model
\* differ by case only, so the order is total.
RECURSIVE SortedByLowerName(_)
SortedByLowerName(S) ==
  IF S = {} THEN <<>>
  ELSE LET first == CHOOSE x \in S :
                      \A y \in S \ {x} : StrLess(Lower(Name(x)), Lower(Name(y)))
       IN <<first>> \o SortedByLowerName(S \ {first})

\* A variant that sorts by name alone, directories among the files.
SortedEntriesByNameAlone(directory) ==
  SortedByLowerName(Entries(directory))

\* sorted(entries, key=lambda x: (not x.is_dir(), x.name.lower()))
SortedEntries(directory) ==
  SortedByLowerName(Entries(directory) \cap Dirs)
    \o SortedByLowerName(Entries(directory) \ Dirs)

(* ------------------------------------------------------------------ *)
(* Ignore rules: load_combineignore, pathspec's gitwildmatch.           *)
(* ------------------------------------------------------------------ *)

\* The list comprehension of load_combineignore: each line stripped, blank
\* lines and lines starting with "#" dropped.
RECURSIVE IgnorePatterns(_)
IgnorePatterns(lines) ==
  IF lines = <<>> THEN <<>>
  ELSE LET line == Strip(Head(lines))
           rest == IgnorePatterns(Tail(lines))
       IN IF line # <<>> /\ Head(line) # "#" THEN <<line>> \o rest ELSE rest

\* One gitwildmatch pattern as pathspec compiles it: a leading "!" negates
\* (include = FALSE), a trailing "/" makes the pattern match directories
\* only.  The model's rule lines hold no other "/", so every pattern may
\* match at any depth.
CompilePattern(line) ==
  LET negated == Head(line) = "!"
      body == IF negated THEN Tail(line) ELSE line
      dir_only == body # <<>> /\ body[Len(body)] = "/"
  IN [glob |-> IF dir_only THEN SubSeq(body, 1, Len(body) - 1) ELSE body,
      include |-> ~negated,
      dir_only |-> dir_only]

\* PathSpec.from_lines("gitwildmatch", ignore_patterns)
FromLines(lines) == [i \in 1..Len(lines) |-> CompilePattern(lines[i])]

\* A glob against one path segment: "*" matches any run of characters
\* (a segment holds no "/"), any other character matches itself.
RECURSIVE Glob(_, _)
Glob(g, s) ==
  IF g = <<>> THEN s = <<>>
  ELSE IF Head(g) = "*"
    THEN Glob(Tail(g), s) \/ (s # <<>> /\ Glob(g, Tail(s)))
    ELSE s # <<>> /\ Head(s) = Head(g) /\ Glob(Tail(g), Tail(s))

\* Does the pattern match the path: some segment matches the glob, and the
\* path goes on after it (the pattern then covers everything below); for a
\* directory-only pattern a "/" must follow the segment, so the segment is
\* not the last one unless the path was given with a trailing slash.
PatternMatches(pat, path, trailing_slash) ==
  \E i \in 1..Len(path) :
    /\ Glob(pat.glob, path[i])
    /\ pat.dir_only => (i < Len(path) \/ trailing_slash)

\* PathSpec.match_file: every pattern is tried in order and the last one
\* that matches decides; no match means not excluded.
RECURSIVE MatchFrom(_, _, _, _, _)
MatchFrom(patterns, i, path, trailing_slash, matched) ==
  IF i > Len(patterns) THEN matched
  ELSE MatchFrom(patterns, i + 1, path, trailing_slash,
                 IF PatternMatches(patterns[i], path, trailing_slash)
                 THEN patterns[i].include ELSE matched)

match_file(pathspec_obj, path, trailing_slash) ==
  MatchFrom(pathspec_obj, 1, path, trailing_slash, FALSE)

\* What load_combineignore returns for a rule file: its patterns when it
\* exists and can be read, the empty pattern set otherwise.
\* A variant that takes the lines of the file whether or not the file
\* can be opened.
load_combineignore_unguarded(rule_file) ==
  FromLines(IgnorePatterns(rule_file.lines))

load_combineignore(rule_file) ==
  FromLines(IF rule_file.exists /\ rule_file.readable
            THEN IgnorePatterns(rule_file.lines) ELSE <<>>)

\* A variant that puts the target rules first, so that a global rule is the
\* last to match.
combine_pathspecs_target_first(global_ps, target_ps) == target_ps \o global_ps

combine_pathspecs(global_ps, target_ps) == global_ps \o target_ps

(* ------------------------------------------------------------------ *)
(* The decision cache and the exclusion tests.  Each returns the        *)
(* verdict together with the cache as the call leaves it.               *)
(* ------------------------------------------------------------------ *)

\* A variant whose hit returns the membership test instead of the stored
\* verdict.
cached_should_exclude_hit_is_true(path, type_str, pathspec_obj, cache) ==
  LET cache_key == <<path, type_str>>
  IN IF cache_key \in DOMAIN cache
     THEN [excluded |-> TRUE, cache |-> cache]
     ELSE LET is_excluded == match_file(pathspec_obj, path, type_str = "dir")
          IN [excluded |-> is_excluded,
              cache |-> cache @@ (cache_key :> is_excluded)]

cached_should_exclude(path, type_str, pathspec_obj, cache) ==
  LET cache_key == <<path, type_str>>
  IN IF cache_key \in DOMAIN cache
     THEN [excluded |-> cache[cache_key], cache |-> cache]
     ELSE LET is_excluded == match_file(pathspec_obj, path, type_str = "dir")
          IN [excluded |-> is_excluded,
              cache |-> cache @@ (cache_key :> is_excluded)]

\* A variant that descends into every directory.
should_exclude_directory_never(directory_path, pathspec_obj, cache) ==
  [excluded |-> FALSE, cache |-> cache]

\* Lines 104-106.  The handler of lines 107-109 answers True when
\* relative_to raises; every path the two passes hand over is built from
\* the root by the listings, a path below the root (the paths of the model
\* are relative to it), so relative_to does not raise.
should_exclude_directory(directory_path, pathspec_obj, cache) ==
  cached_should_exclude(directory_path, "dir", pathspec_obj, cache)

\* A variant whose size test is "at least" instead of "greater than".
should_exclude_file_at_least(file_path, include_files, pathspec_obj, max_file_size_kb, cache) ==
  IF file_path \in include_files
  THEN [excluded |-> FALSE, cache |-> cache]
  ELSE IF StatRaises(file_path)
  THEN [excluded |-> TRUE, cache |-> cache]
  ELSE IF StatSize(file_path) >= max_file_size_kb * 1024
  THEN [excluded |-> TRUE, cache |-> cache]
  ELSE cached_should_exclude(file_path, "file", pathspec_obj, cache)

\* A variant that takes the size of a file whose stat() raises for zero.
should_exclude_file_stat_default(file_path, include_files, pathspec_obj, max_file_size_kb, cache) ==
  IF file_path \in include_files
  THEN [excluded |-> FALSE, cache |-> cache]
  ELSE IF ~StatRaises(file_path) /\ StatSize(file_path) > max_file_size_kb * 1024
  THEN [excluded |-> TRUE, cache |-> cache]
  ELSE cached_should_exclude(file_path, "file", pathspec_obj, cache)

\* Line 137 tests the explicit-include set outside the try; inside it
\* (lines 140-144) stat() comes first, and the handler of lines 145-147
\* answers True for any exception, with nothing stored in the cache.
should_exclude_file(file_path, include_files, pathspec_obj, max_file_size_kb, cache) ==
  IF file_path \in include_files
  THEN [excluded |-> FALSE, cache |-> cache]
  ELSE IF StatRaises(file_path)
  THEN [excluded |-> TRUE, cache |-> cache]
  ELSE IF StatSize(file_path) > max_file_size_kb * 1024
  THEN [excluded |-> TRUE, cache |-> cache]
  ELSE cached_should_exclude(file_path, "file", pathspec_obj, cache)

(* ------------------------------------------------------------------ *)
(* traverse_and_collect_files                                           *)
(* ------------------------------------------------------------------ *)

RECURSIVE traverse_and_collect_files(_, _, _, _, _)
RECURSIVE CollectEntries(_, _, _, _, _, _, _)

\* A variant of the loop in which the failing listing of a subdirectory
\* ends the loop of its parent: the entries after it are not visited.
CollectEntriesPropagating(sorted_entries, i, pathspec_obj, include_files, max_file_size_kb, acc, cache) ==
  IF i > Len(sorted_entries) THEN [files |-> acc, cache |-> cache]
  ELSE LET entry_path == sorted_entries[i]
       IN IF entry_path \in Dirs
          THEN LET d == should_exclude_directory(entry_path, pathspec_obj, cache)
               IN IF d.excluded
                  THEN CollectEntries(sorted_entries, i + 1, pathspec_obj,
                                      include_files, max_file_size_kb, acc, d.cache)
                  ELSE IF listing[entry_path] # "ok"
                  THEN [files |-> acc, cache |-> d.cache]
                  ELSE LET sub == traverse_and_collect_files(
                                    entry_path, pathspec_obj, include_files,
                                    max_file_size_kb, d.cache)
                       IN CollectEntries(sorted_entries, i + 1, pathspec_obj,
                                         include_files, max_file_size_kb,
                                         acc \o sub.files, sub.cache)
          ELSE LET f == should_exclude_file(entry_path, include_files,
                                            pathspec_obj, max_file_size_kb, cache)
               IN CollectEntries(sorted_entries, i + 1, pathspec_obj,
                                 include_files, max_file_size_kb,
                                 IF f.excluded THEN acc ELSE Append(acc, entry_path),
                                 f.cache)

\* A variant of the loop that walks an excluded directory too and throws
\* its candidates away afterwards.
CollectEntriesFilteringAfter(sorted_entries, i, pathspec_obj, include_files, max_file_size_kb, acc, cache) ==
  IF i > Len(sorted_entries) THEN [files |-> acc, cache |-> cache]
  ELSE LET entry_path == sorted_entries[i]
       IN IF entry_path \in Dirs
          THEN LET d == should_exclude_directory(entry_path, pathspec_obj, cache)
                   sub == traverse_and_collect_files(
                            entry_path, pathspec_obj, include_files,
                            max_file_size_kb, d.cache)
               IN CollectEntries(sorted_entries, i + 1, pathspec_obj,
                                 include_files, max_file_size_kb,
                                 IF d.excluded THEN acc ELSE acc \o sub.files,
                                 sub.cache)
          ELSE LET f == should_exclude_file(entry_path, include_files,
                                            pathspec_obj, max_file_size_kb, cache)
               IN CollectEntries(sorted_entries, i + 1, pathspec_obj,
                                 include_files, max_file_size_kb,
                                 IF f.excluded THEN acc ELSE Append(acc, entry_path),
                                 f.cache)

\* The for loop over sorted_entries from index i on; acc is
\* files_to_process so far.
CollectEntries(sorted_entries, i, pathspec_obj, include_files, max_file_size_kb, acc, cache) ==
  IF i > Len(sorted_entries) THEN [files |-> acc, cache |-> cache]
  ELSE LET entry_path == sorted_entries[i]
       IN IF entry_path \in Dirs
          THEN LET d == should_exclude_directory(entry_path, pathspec_obj, cache)
               IN IF d.excluded
                  THEN CollectEntries(sorted_entries, i + 1, pathspec_obj,
                                      include_files, max_file_size_kb, acc, d.cache)
                  ELSE LET sub == traverse_and_collect_files(
                                    entry_path, pathspec_obj, include_files,
                                    max_file_size_kb, d.cache)
                       IN CollectEntries(sorted_entries, i + 1, pathspec_obj,
                                         include_files, max_file_size_kb,
                                         acc \o sub.files, sub.cache)
          ELSE LET f == should_exclude_file(entry_path, include_files,
                                            pathspec_obj, max_file_size_kb, cache)
               IN CollectEntries(sorted_entries, i + 1, pathspec_obj,
                                 include_files, max_file_size_kb,
                                 IF f.excluded THEN acc ELSE Append(acc, entry_path),
                                 f.cache)

\* A failing os.scandir (PermissionError or any other exception) is caught
\* and the directory yields the empty list.
traverse_and_collect_files(directory, pathspec_obj, include_files, max_file_size_kb, cache) ==
  IF listing[directory] # "ok"
  THEN [files |-> <<>>, cache |-> cache]
  ELSE CollectEntries(SortedEntries(directory), 1, pathspec_obj, include_files,
                      max_file_size_kb, <<>>, cache)

(* ------------------------------------------------------------------ *)
(* generate_tree_structure                                              *)
(* ------------------------------------------------------------------ *)

\* The default of --max-file-size, in KB.
DefaultMaxFileSize == 10240

\* A variant in which the renderer applies the size limit of the walk.
sys_maxsize_is_walk_limit == DefaultMaxFileSize

\* sys.maxsize, scaled to the model's integers: above every size / 1024.
sys_maxsize == 2097151

\* The box-drawing connectors and continuation prefixes, in ASCII.
ConnectorLast == "L-- "
ConnectorBranch == "|-- "
ExtensionLast == "    "
ExtensionBranch == "|   "

RECURSIVE generate_tree_structure(_, _, _, _, _)
RECURSIVE RenderEntries(_, _, _, _, _, _, _)

\* A variant of the loop that tests a file without the explicit-include set.
RenderEntriesWithoutOverrides(entries, i, pathspec_obj, include_files, prefix, output, cache) ==
  IF i > Len(entries) THEN [lines |-> output, cache |-> cache, raised |-> FALSE]
  ELSE LET entry == entries[i]
           is_last_entry == (i = Len(entries))
           connector == IF is_last_entry THEN ConnectorLast ELSE ConnectorBranch
           line == [prefix |-> prefix, connector |-> connector, path |-> entry]
       IN IF entry \in Dirs
          THEN LET d == should_exclude_directory(entry, pathspec_obj, cache)
               IN IF d.excluded
                  THEN RenderEntries(entries, i + 1, pathspec_obj, include_files,
                                     prefix, output, d.cache)
                  ELSE LET extension == IF is_last_entry THEN ExtensionLast
                                        ELSE ExtensionBranch
                           subtree == generate_tree_structure(
                                        entry, pathspec_obj, include_files,
                                        Append(prefix, extension), d.cache)
                       IN IF subtree.raised
                          THEN [lines |-> <<>>, cache |-> subtree.cache,
                                raised |-> TRUE]
                          ELSE RenderEntries(entries, i + 1, pathspec_obj,
                                             include_files, prefix,
                                             Append(output, line) \o subtree.lines,
                                             subtree.cache)
          ELSE LET f == should_exclude_file(entry, {}, pathspec_obj,
                                            sys_maxsize, cache)
               IN RenderEntries(entries, i + 1, pathspec_obj, include_files,
                                prefix,
                                IF f.excluded THEN output ELSE Append(output, line),
                                f.cache)

\* The for loop over entries from index i on; output holds the lines so
\* far.  raised: an exception left the call.
RenderEntries(entries, i, pathspec_obj, include_files, prefix, output, cache) ==
  IF i > Len(entries) THEN [lines |-> output, cache |-> cache, raised |-> FALSE]
  ELSE LET entry == entries[i]
           is_last_entry == (i = Len(entries))
           connector == IF is_last_entry THEN ConnectorLast ELSE ConnectorBranch
           line == [prefix |-> prefix, connector |-> connector, path |-> entry]
       IN IF entry \in Dirs
          THEN LET d == should_exclude_directory(entry, pathspec_obj, cache)
               IN IF d.excluded
                  THEN RenderEntries(entries, i + 1, pathspec_obj, include_files,
                                     prefix, output, d.cache)
                  ELSE LET extension == IF is_last_entry THEN ExtensionLast
                                        ELSE ExtensionBranch
                           subtree == generate_tree_structure(
                                        entry, pathspec_obj, include_files,
                                        Append(prefix, extension), d.cache)
                       IN IF subtree.raised
                          THEN [lines |-> <<>>, cache |-> subtree.cache,
                                raised |-> TRUE]
                          ELSE RenderEntries(entries, i + 1, pathspec_obj,
                                             include_files, prefix,
                                             Append(output, line) \o subtree.lines,
                                             subtree.cache)
          ELSE LET f == should_exclude_file(entry, include_files, pathspec_obj,
                                            sys_maxsize, cache)
               IN RenderEntries(entries, i + 1, pathspec_obj, include_files,
                                prefix,
                                IF f.excluded THEN output ELSE Append(output, line),
                                f.cache)

\* Only PermissionError is caught around the listing: any other failure of
\* directory.iterdir() leaves the call as an exception.  The sort key calls
\* x.is_dir(), which stats the entry: in a directory that cannot be
\* searched it raises PermissionError, caught like that of the listing (an
\* interpreter whose is_dir() answers False instead skips the entry, being
\* neither directory nor file: the same text when the entry is the only one
\* of its directory, as in this model).
generate_tree_structure(directory, pathspec_obj, include_files, prefix, cache) ==
  IF listing[directory] = "perm"
  THEN [lines |-> <<>>, cache |-> cache, raised |-> FALSE]
  ELSE IF listing[directory] # "ok"
  THEN [lines |-> <<>>, cache |-> cache, raised |-> TRUE]
  ELSE IF \E entry \in Entries(directory) : StatRaises(entry)
  THEN [lines |-> <<>>, cache |-> cache, raised |-> FALSE]
  ELSE RenderEntries(SortedEntries(directory), 1, pathspec_obj, include_files,
                     prefix, <<>>, cache)

(* ------------------------------------------------------------------ *)
(* process_single_file                                                  *)
(* ------------------------------------------------------------------ *)

CHUNK_SIZE == 8192

\* The bytes of a file; "\\xff" stands for a byte that is not valid UTF-8.
FileBytes(file_path) ==
  IF file_path = p_other THEN <<"o", "\\xff", "k">>
  ELSE IF file_path = p_debuglog THEN <<"l", "o", "g">>
  ELSE <<Name(file_path)[1]>>

\* A variant that decodes with errors="replace": a mark stands where a byte
\* could not be decoded.
RECURSIVE DecodeReplace(_)
DecodeReplace(bytes) ==
  IF bytes = <<>> THEN <<>>
  ELSE IF Head(bytes) = "\\xff" THEN <<"?">> \o DecodeReplace(Tail(bytes))
  ELSE <<Head(bytes)>> \o DecodeReplace(Tail(bytes))

\* open(encoding="utf-8", errors="ignore"): undecodable bytes are dropped.
RECURSIVE Decode(_)
Decode(bytes) ==
  IF bytes = <<>> THEN <<>>
  ELSE IF Head(bytes) = "\\xff" THEN Decode(Tail(bytes))
  ELSE <<Head(bytes)>> \o Decode(Tail(bytes))

\* The read loop: chunks of CHUNK_SIZE characters until an empty chunk,
\* joined.
RECURSIVE ReadChunks(_)
ReadChunks(text) ==
  IF text = <<>> THEN <<>>
  ELSE LET n == IF Len(text) < CHUNK_SIZE THEN Len(text) ELSE CHUNK_SIZE
       IN SubSeq(text, 1, n) \o ReadChunks(SubSeq(text, n + 1, Len(text)))

\* Does file_path.open("r") succeed on an existing file: the target rule
\* file may be unreadable, and so is a file in a directory that cannot be
\* searched.
CanOpen(file_path) ==
  /\ file_path = p_combineignore => rule_files.target.readable
  /\ ~StatRaises(file_path)

\* A variant whose failure escapes the function: main() records the
\* banner of a failed future, which carries no header.
process_single_file_uncaught(file_path) ==
  IF file_path \in ExistingFiles /\ CanOpen(file_path)
  THEN [source |-> file_path, error |-> FALSE,
        text |-> ReadChunks(Decode(FileBytes(file_path)))]
  ELSE [source |-> <<>>, error |-> TRUE, text |-> <<>>]

\* The block of one file: its header (the relative path) and either the
\* content read or, when opening or reading fails, the error banner.
process_single_file(file_path) ==
  IF file_path \in ExistingFiles /\ CanOpen(file_path)
  THEN [source |-> file_path, error |-> FALSE,
        text |-> ReadChunks(Decode(FileBytes(file_path)))]
  ELSE [source |-> file_path, error |-> TRUE, text |-> <<>>]

(* ------------------------------------------------------------------ *)
(* The inputs of a run.                                                 *)
(* ------------------------------------------------------------------ *)

NoCache == <<>>

\* A file of the run on disk: absent, left by an earlier run (stale), or
\* written by this run, with the tree text (if any), the characters that
\* follow the tree text (if any) and the blocks it holds.
NoFile == [state |-> "absent", tree |-> <<>>, sep |-> <<>>, blocks |-> <<>>]
StaleFile == [state |-> "stale", tree |-> <<>>, sep |-> <<>>, blocks |-> <<>>]
Written(tree, blocks) == [state |-> "written", tree |-> tree, sep |-> <<>>, blocks |-> blocks]

\* Line 570: the two newlines between the tree text and the blocks; the
\* first ends the last line of the tree, the second is a blank line.
BlankLine == <<"\n", "\n">>

NoResult == [source |-> <<>>, error |-> FALSE, text |-> <<>>]
NoQuery == [path |-> <<>>, type_str |-> "", excluded |-> FALSE, repeated |-> FALSE,
            first |-> <<>>, dropped |-> <<>>]

l_star_log == <<"*", ".", "l", "o", "g">>
l_Build_slash == <<"B", "u", "i", "l", "d", "/">>
l_not_important == <<"!">> \o n_important_log
l_comment == <<"#", " ", "c">>
l_blank == <<" ", " ">>
l_padded_a_b == <<" ">> \o n_a_b \o <<" ">>

\* Rule files.  find_combineignore returns Path() when the upward search
\* finds nothing: a path that exists (the working directory) and cannot be
\* opened as a file.  An unreadable rule file has lines that no open
\* gets to.
RuleFile(lines) == [exists |-> TRUE, readable |-> TRUE, lines |-> lines]
NotFound == [exists |-> TRUE, readable |-> FALSE, lines |-> <<>>]
Absent == [exists |-> FALSE, readable |-> FALSE, lines |-> <<>>]
Unreadable == [exists |-> TRUE, readable |-> FALSE, lines |-> <<l_star_log>>]

GlobalRuleFiles ==
  {NotFound, RuleFile(<<l_star_log>>), RuleFile(<<l_Build_slash>>)}
TargetRuleFiles ==
  {Absent, Unreadable, RuleFile(<<l_not_important>>),
   RuleFile(<<l_comment, l_blank, l_padded_a_b>>),
   RuleFile(<<l_Build_slash, l_not_important>>)}

IncludeChoices == {{}, {p_important}, {p_Build_important}}

ListingOutcomes == {"ok", "perm", "oserr"}

\* The root as str() prints it: Path(".") contributes nothing to the
\* string of an entry's path, a resolved --directory is a prefix of it.
RootStr == IF args.directory = "default" THEN <<>> ELSE <<"/", "r">>

\* A variant that folds case, as the walk's sort of a listing does.
PathStrCaseFolded(rel) ==
  Lower(IF RootStr = <<>> THEN JoinSlash(rel) ELSE RootStr \o <<"/">> \o JoinSlash(rel))

\* str(entry_path)
PathStr(rel) ==
  IF RootStr = <<>> THEN JoinSlash(rel) ELSE RootStr \o <<"/">> \o JoinSlash(rel)

Bool2Nat(b) == IF b THEN 1 ELSE 0

\* How many inputs depart from the plain run (no rules, no overrides, all
\* files within the size limit, every stat() and listing succeeding, no
\* stale output, a root given with --directory, the largest pool).
Variations(a, rf, sz, ls, out, tree) ==
  Bool2Nat(a.directory = "default")
  + Bool2Nat(a.max_workers < MaxPool)
  + Bool2Nat(a.include_files # {})
  + Bool2Nat(rf.global # NotFound)
  + Bool2Nat(rf.target # Absent)
  + Bool2Nat(\E f \in DOMAIN sz : sz[f] > a.max_file_size * 1024)
  + Bool2Nat(\E f \in DOMAIN sz : sz[f] = StatError)
  + Bool2Nat(\E d \in DOMAIN ls : ls[d] # "ok")
  + Bool2Nat(out.state # "absent")
  + Bool2Nat(tree.state # "absent")

Init ==
  /\ pc = "load_global"
  /\ \E d \in {"default", "given"}, inc \in IncludeChoices, w \in 1..MaxPool :
       args = [directory |-> d, include_files |-> inc,
               max_file_size |-> DefaultMaxFileSize, max_workers |-> w]
  /\ \E g \in GlobalRuleFiles, t \in TargetRuleFiles :
       rule_files = [global |-> g, target |-> t]
  /\ files \in SUBSET UserFiles
  /\ Cardinality(files) + Bool2Nat(rule_files.target.exists)
       + Bool2Nat(args.directory = "default") <= MaxFiles
  /\ \E big \in SUBSET files, nostat \in SUBSET (files \cap {p_a_b}) :
       /\ Cardinality(big) <= 1
       /\ big \cap nostat = {}
       /\ st_size = [f \in UserFiles |->
                       IF f \in nostat THEN StatError
                       ELSE IF f \in big THEN args.max_file_size * 1024 + 1
                       ELSE args.max_file_size * 1024]
  /\ \E bad \in SUBSET {Root, p_a}, how \in {"perm", "oserr"} :
       /\ Cardinality(bad) <= 1
       /\ listing = [d \in AllDirs \cup {Root} |-> IF d \in bad THEN how ELSE "ok"]
  /\ output_file \in {NoFile, StaleFile}
  /\ tree_file \in {NoFile, StaleFile}
  /\ Variations(args, rule_files, st_size, listing, output_file, tree_file)
       <= MaxVariations
  /\ path_match_cache = NoCache
  /\ global_pathspec = <<>>
  /\ target_pathspec = <<>>
  /\ combined_pathspec = <<>>
  /\ files_to_process = <<>>
  /\ futures = <<>>
  /\ combined_contents = <<>>
  /\ tree_output = <<>>
  /\ exit_status = <<>>
  /\ log = {}
  /\ deletes = 0
  /\ query = NoQuery

(* ------------------------------------------------------------------ *)
(* main(): one action per step.                                         *)
(* ------------------------------------------------------------------ *)

\* Lines 476-482: the global rules are loaded when the path found exists;
\* load_combineignore first clears the decision cache.
LoadGlobal ==
  /\ pc = "load_global"
  /\ IF rule_files.global.exists
     THEN /\ path_match_cache' = NoCache
          /\ global_pathspec' = load_combineignore(rule_files.global)
     ELSE /\ global_pathspec' = FromLines(<<>>)
          /\ UNCHANGED path_match_cache
  /\ pc' = "load_target"
  /\ UNCHANGED <<args, rule_files, files, st_size, listing, target_pathspec,
                 combined_pathspec, files_to_process, futures, combined_contents,
                 output_file, tree_file, tree_output, exit_status, log, deletes,
                 query>>

\* Lines 494-495.
LoadTarget ==
  /\ pc = "load_target"
  /\ path_match_cache' = NoCache
  /\ target_pathspec' = load_combineignore(rule_files.target)
  /\ pc' = "combine"
  /\ UNCHANGED <<args, rule_files, files, st_size, listing, global_pathspec,
                 combined_pathspec, files_to_process, futures, combined_contents,
                 output_file, tree_file, tree_output, exit_status, log, deletes,
                 query>>

\* Line 498.
Combine ==
  /\ pc = "combine"
  /\ combined_pathspec' = combine_pathspecs(global_pathspec, target_pathspec)
  /\ pc' = "clean_output"
  /\ UNCHANGED <<args, rule_files, files, st_size, listing, path_match_cache,
                 global_pathspec, target_pathspec, files_to_process, futures,
                 combined_contents, output_file, tree_file, tree_output,
                 exit_status, log, deletes, query>>

\* Lines 514-520, the iteration for output_file: an existing file is
\* unlinked; when that fails the process exits with status 1.
CleanOutput ==
  /\ pc = "clean_output"
  /\ \/ /\ output_file.state = "absent"
        /\ pc' = "clean_tree"
        /\ UNCHANGED <<output_file, exit_status, log>>
     \/ /\ output_file.state # "absent"
        /\ output_file' = NoFile
        /\ pc' = "clean_tree"
        /\ UNCHANGED <<exit_status, log>>
     \/ /\ output_file.state # "absent"
        /\ log' = log \cup {"Error removing existing output file"}
        /\ exit_status' = <<1>>
        /\ pc' = "exited"
        /\ UNCHANGED output_file
  /\ UNCHANGED <<args, rule_files, files, st_size, listing, path_match_cache,
                 global_pathspec, target_pathspec, combined_pathspec,
                 files_to_process, futures, combined_contents, tree_file,
                 tree_output, deletes, query>>

\* A variant of the iteration for tree_file that logs the failure and goes
\* on to the walk.
CleanTreeContinues ==
  /\ pc = "clean_tree"
  /\ \/ /\ tree_file.state = "absent"
        /\ pc' = "traverse"
        /\ UNCHANGED <<tree_file, exit_status, log>>
     \/ /\ tree_file.state # "absent"
        /\ tree_file' = NoFile
        /\ pc' = "traverse"
        /\ UNCHANGED <<exit_status, log>>
     \/ /\ tree_file.state # "absent"
        /\ log' = log \cup {"Error removing existing output file"}
        /\ pc' = "traverse"
        /\ UNCHANGED <<tree_file, exit_status>>
  /\ UNCHANGED <<args, rule_files, files, st_size, listing, path_match_cache,
                 global_pathspec, target_pathspec, combined_pathspec,
                 files_to_process, futures, combined_contents, output_file,
                 tree_output, deletes, query>>

\* Lines 514-520, the iteration for tree_file.
CleanTree ==
  /\ pc = "clean_tree"
  /\ \/ /\ tree_file.state = "absent"
        /\ pc' = "traverse"
        /\ UNCHANGED <<tree_file, exit_status, log>>
     \/ /\ tree_file.state # "absent"
        /\ tree_file' = NoFile
        /\ pc' = "traverse"
        /\ UNCHANGED <<exit_status, log>>
     \/ /\ tree_file.state # "absent"
        /\ log' = log \cup {"Error removing existing output file"}
        /\ exit_status' = <<1>>
        /\ pc' = "exited"
        /\ UNCHANGED tree_file
  /\ UNCHANGED <<args, rule_files, files, st_size, listing, path_match_cache,
                 global_pathspec, target_pathspec, combined_pathspec,
                 files_to_process, futures, combined_contents, output_file,
                 tree_output, deletes, query>>

\* Lines 526-528.
Traverse ==
  /\ pc = "traverse"
  /\ LET r == traverse_and_collect_files(Root, combined_pathspec,
                                         args.include_files, args.max_file_size,
                                         path_match_cache)
     IN /\ files_to_process' = r.files
        /\ path_match_cache' = r.cache
  /\ pc' = "submit"
  /\ UNCHANGED <<args, rule_files, files, st_size, listing, global_pathspec,
                 target_pathspec, combined_pathspec, futures, combined_contents,
                 output_file, tree_file, tree_output, exit_status, log, deletes,
                 query>>

Range(seq) == {seq[i] : i \in 1..Len(seq)}

\* Lines 534-538: every candidate is submitted to the pool, in list order.
Submit ==
  /\ pc = "submit"
  /\ futures' = [i \in 1..Len(files_to_process) |->
                   [file |-> files_to_process[i], state |-> "pending",
                    reads |-> 0, result |-> NoResult]]
  /\ pc' = "reading"
  /\ UNCHANGED <<args, rule_files, files, st_size, listing, path_match_cache,
                 global_pathspec, target_pathspec, combined_pathspec,
                 files_to_process, combined_contents, output_file, tree_file,
                 tree_output, exit_status, log, deletes, query>>

\* A variant of the pool that starts a thread for every task.
RunningUnbounded ==
  {i \in DOMAIN futures : futures[i].state = "pending"}

\* A variant of the pool that keeps one of its threads idle.
RunningOneIdle ==
  {i \in DOMAIN futures :
     /\ futures[i].state = "pending"
     /\ Cardinality({j \in 1..(i - 1) : futures[j].state = "pending"})
          < args.max_workers - 1}

\* ThreadPoolExecutor: the queue is first-in first-out and each of the
\* max_workers threads runs one task at a time, so the tasks in a worker's
\* hands are the oldest max_workers tasks that have not finished.
Running ==
  {i \in DOMAIN futures :
     /\ futures[i].state = "pending"
     /\ Cardinality({j \in 1..(i - 1) : futures[j].state = "pending"})
          < args.max_workers}

\* A variant of the worker that puts a task whose read failed back in the
\* queue.
FinishReadRetries(i) ==
  /\ pc = "reading"
  /\ i \in Running
  /\ LET content == process_single_file(futures[i].file)
     IN /\ futures' = IF content.error
                      THEN [futures EXCEPT ![i].reads = @ + 1]
                      ELSE [futures EXCEPT ![i].state = "finished",
                                           ![i].reads = @ + 1,
                                           ![i].result = content]
        /\ log' = IF content.error THEN log \cup {"Error reading file"} ELSE log
  /\ UNCHANGED <<pc, args, rule_files, files, st_size, listing, path_match_cache,
                 global_pathspec, target_pathspec, combined_pathspec,
                 files_to_process, combined_contents, output_file, tree_file,
                 tree_output, exit_status, deletes, query>>

\* The worker runs process_single_file and the future holds its value;
\* reads counts the runs of process_single_file for the task.
FinishRead(i) ==
  /\ pc = "reading"
  /\ i \in Running
  /\ LET content == process_single_file(futures[i].file)
     IN /\ futures' = [futures EXCEPT ![i].state = "finished",
                                      ![i].reads = @ + 1,
                                      ![i].result = content]
        /\ log' = IF content.error THEN log \cup {"Error reading file"} ELSE log
  /\ UNCHANGED <<pc, args, rule_files, files, st_size, listing, path_match_cache,
                 global_pathspec, target_pathspec, combined_pathspec,
                 files_to_process, combined_contents, output_file, tree_file,
                 tree_output, exit_status, deletes, query>>

\* A variant of main's loop that asks the cache about each file it
\* collects, while other reads are still running.
CollectAsksCache(i) ==
  /\ pc = "reading"
  /\ futures[i].state = "finished"
  /\ combined_contents' =
       Append(combined_contents, <<futures[i].file, futures[i].result>>)
  /\ futures' = [futures EXCEPT ![i].state = "collected"]
  /\ path_match_cache' =
       cached_should_exclude(futures[i].file, "file", combined_pathspec,
                             path_match_cache).cache
  /\ UNCHANGED <<pc, args, rule_files, files, st_size, listing,
                 global_pathspec, target_pathspec, combined_pathspec,
                 files_to_process, output_file, tree_file, tree_output,
                 exit_status, log, deletes, query>>

\* Lines 539-543: as_completed yields a finished future, in no fixed order,
\* and main appends its (path, content).
Collect(i) ==
  /\ pc = "reading"
  /\ futures[i].state = "finished"
  /\ combined_contents' =
       Append(combined_contents, <<futures[i].file, futures[i].result>>)
  /\ futures' = [futures EXCEPT ![i].state = "collected"]
  /\ UNCHANGED <<pc, args, rule_files, files, st_size, listing, path_match_cache,
                 global_pathspec, target_pathspec, combined_pathspec,
                 files_to_process, output_file, tree_file, tree_output,
                 exit_status, log, deletes, query>>

\* list.sort(key=...): a stable insertion of each element after the last
\* element whose key is not greater.
RECURSIVE InsertByKey(_, _)
InsertByKey(sorted, x) ==
  IF sorted = <<>> THEN <<x>>
  ELSE IF StrLess(PathStr(x[1]), PathStr(Head(sorted)[1]))
    THEN <<x>> \o sorted
    ELSE <<Head(sorted)>> \o InsertByKey(Tail(sorted), x)

RECURSIVE SortInto(_, _)
SortInto(sorted, rest) ==
  IF rest = <<>> THEN sorted
  ELSE SortInto(InsertByKey(sorted, Head(rest)), Tail(rest))

\* A variant that leaves the list in the order of collection.
SortContentsAsCollected(contents) == contents

\* combined_contents.sort(key=lambda x: str(x[0]))
SortContents(contents) == SortInto(<<>>, contents)

\* Line 551, once the pool has joined.
SortResults ==
  /\ pc = "reading"
  /\ \A i \in DOMAIN futures : futures[i].state = "collected"
  /\ combined_contents' = SortContents(combined_contents)
  /\ pc' = "write_combined"
  /\ UNCHANGED <<args, rule_files, files, st_size, listing, path_match_cache,
                 global_pathspec, target_pathspec, combined_pathspec,
                 files_to_process, futures, output_file, tree_file, tree_output,
                 exit_status, log, deletes, query>>

\* A variant that writes outside the with block of the pool: as soon as
\* the tasks are submitted.
WriteCombinedBeforeJoin ==
  /\ pc \in {"write_combined", "reading"}
  /\ \/ /\ output_file' = Written(<<>>, [i \in 1..Len(combined_contents) |->
                                           combined_contents[i][2]])
        /\ pc' = "render_tree"
        /\ UNCHANGED log
     \/ /\ pc' = "except"
        /\ log' = log \cup {"raised: output_file.open(w)"}
        /\ UNCHANGED output_file
  /\ UNCHANGED <<args, rule_files, files, st_size, listing, path_match_cache,
                 global_pathspec, target_pathspec, combined_pathspec,
                 files_to_process, futures, combined_contents, tree_file,
                 tree_output, exit_status, deletes, query>>

\* Lines 554-556: the blocks are written in list order; a failing open is
\* an exception, caught at line 598.
WriteCombined ==
  /\ pc = "write_combined"
  /\ \/ /\ output_file' = Written(<<>>, [i \in 1..Len(combined_contents) |->
                                           combined_contents[i][2]])
        /\ pc' = "render_tree"
        /\ UNCHANGED log
     \/ /\ pc' = "except"
        /\ log' = log \cup {"raised: output_file.open(w)"}
        /\ UNCHANGED output_file
  /\ UNCHANGED <<args, rule_files, files, st_size, listing, path_match_cache,
                 global_pathspec, target_pathspec, combined_pathspec,
                 files_to_process, futures, combined_contents, tree_file,
                 tree_output, exit_status, deletes, query>>

\* Lines 560-562: the root line and the rendered lines.
RenderTree ==
  /\ pc = "render_tree"
  /\ LET r == generate_tree_structure(Root, combined_pathspec,
                                      args.include_files, <<>>, path_match_cache)
     IN /\ path_match_cache' = r.cache
        /\ IF r.raised
           THEN /\ pc' = "except"
                /\ log' = log \cup {"raised: directory.iterdir()"}
                /\ UNCHANGED tree_output
           ELSE /\ pc' = "write_tree"
                /\ tree_output' = <<[root |-> RootStr, lines |-> r.lines]>>
                /\ UNCHANGED log
  /\ UNCHANGED <<args, rule_files, files, st_size, listing, global_pathspec,
                 target_pathspec, combined_pathspec, files_to_process, futures,
                 combined_contents, output_file, tree_file, exit_status,
                 deletes, query>>

\* Lines 563-564.
WriteTree ==
  /\ pc = "write_tree"
  /\ \/ /\ tree_file' = Written(tree_output, <<>>)
        /\ pc' = "prepend"
        /\ UNCHANGED log
     \/ /\ pc' = "except"
        /\ log' = log \cup {"raised: tree_file.open(w)"}
        /\ UNCHANGED tree_file
  /\ UNCHANGED <<args, rule_files, files, st_size, listing, path_match_cache,
                 global_pathspec, target_pathspec, combined_pathspec,
                 files_to_process, futures, combined_contents, output_file,
                 tree_output, exit_status, deletes, query>>

\* A variant that writes the tree text in front of the blocks with nothing
\* between them.
PrependNoBlankLine ==
  /\ pc = "prepend"
  /\ \/ /\ output_file.state # "absent"
        /\ output_file' = Written(tree_output, output_file.blocks)
        /\ pc' = "finally"
        /\ UNCHANGED log
     \/ /\ pc' = "except"
        /\ log' = log \cup {"raised: output_file.open(r+)"}
        /\ UNCHANGED output_file
  /\ UNCHANGED <<args, rule_files, files, st_size, listing, path_match_cache,
                 global_pathspec, target_pathspec, combined_pathspec,
                 files_to_process, futures, combined_contents, tree_file,
                 tree_output, exit_status, deletes, query>>

\* Lines 567-570: the file is read back and rewritten with the tree and a
\* blank line in front.
Prepend ==
  /\ pc = "prepend"
  /\ \/ /\ output_file.state # "absent"
        /\ output_file' = [Written(tree_output, output_file.blocks)
                             EXCEPT !.sep = BlankLine]
        /\ pc' = "finally"
        /\ UNCHANGED log
     \/ /\ pc' = "except"
        /\ log' = log \cup {"raised: output_file.open(r+)"}
        /\ UNCHANGED output_file
  /\ UNCHANGED <<args, rule_files, files, st_size, listing, path_match_cache,
                 global_pathspec, target_pathspec, combined_pathspec,
                 files_to_process, futures, combined_contents, tree_file,
                 tree_output, exit_status, deletes, query>>

\* A variant of the handler that ends the process itself, the way the
\* cleanup loop does.
ExceptExits ==
  /\ pc = "except"
  /\ log' = log \cup {"An error occurred during processing."}
  /\ exit_status' = <<1>>
  /\ pc' = "exited"
  /\ UNCHANGED <<args, rule_files, files, st_size, listing, path_match_cache,
                 global_pathspec, target_pathspec, combined_pathspec,
                 files_to_process, futures, combined_contents, output_file,
                 tree_file, tree_output, deletes, query>>

\* Lines 598-599.
Except ==
  /\ pc = "except"
  /\ log' = log \cup {"An error occurred during processing."}
  /\ pc' = "finally"
  /\ UNCHANGED <<args, rule_files, files, st_size, listing, path_match_cache,
                 global_pathspec, target_pathspec, combined_pathspec,
                 files_to_process, futures, combined_contents, output_file,
                 tree_file, tree_output, exit_status, deletes, query>>

\* Lines 600-602; main returns and the interpreter exits with status 0.
Finally ==
  /\ pc = "finally"
  /\ log' = log \cup {"Program completed"}
  /\ exit_status' = <<0>>
  /\ pc' = "exited"
  /\ UNCHANGED <<args, rule_files, files, st_size, listing, path_match_cache,
                 global_pathspec, target_pathspec, combined_pathspec,
                 files_to_process, futures, combined_contents, output_file,
                 tree_file, tree_output, deletes, query>>

\* The environment deletes a file between the walk and the reads.
DeleteFile(f) ==
  /\ pc = "submit"
  /\ f \in files
  /\ deletes < MaxDeletes
  /\ files' = files \ {f}
  /\ deletes' = deletes + 1
  /\ UNCHANGED <<pc, args, rule_files, st_size, listing, path_match_cache,
                 global_pathspec, target_pathspec, combined_pathspec,
                 files_to_process, futures, combined_contents, output_file,
                 tree_file, tree_output, exit_status, log, query>>

Next ==
  \/ LoadGlobal
  \/ LoadTarget
  \/ Combine
  \/ CleanOutput
  \/ CleanTree
  \/ Traverse
  \/ Submit
  \/ \E i \in DOMAIN futures : FinishRead(i)
  \/ \E i \in DOMAIN futures : Collect(i)
  \/ SortResults
  \/ WriteCombined
  \/ RenderTree
  \/ WriteTree
  \/ Prepend
  \/ Except
  \/ Finally
  \/ \E f \in UserFiles : DeleteFile(f)

Spec == Init /\ [][Next]_vars

\* The steps of the program other than the walk and the rendering.
ProgramStep ==
  \/ LoadGlobal \/ LoadTarget \/ Combine \/ CleanOutput \/ CleanTree
  \/ Submit
  \/ \E i \in DOMAIN futures : FinishRead(i)
  \/ \E i \in DOMAIN futures : Collect(i)
  \/ SortResults \/ WriteCombined \/ WriteTree \/ Prepend
  \/ Except \/ Finally

\* The runs of Init without rules and overrides, on at most two files.
InitFair ==
  /\ Init
  /\ rule_files = [global |-> NotFound, target |-> Absent]
  /\ args.include_files = {}
  /\ files \subseteq {p_a_b, p_a_dash_b}

\* The main thread and the workers of the pool keep being scheduled: while
\* the program can take a step, it eventually takes one.  Traverse and
\* RenderTree are enabled exactly when pc is "traverse" and "render_tree"
\* and each of their steps leaves that value of pc, so their weak fairness
\* is that pc does not stay there for ever.
SpecFair ==
  /\ InitFair /\ [][Next]_vars
  /\ WF_vars(ProgramStep)
  /\ []<>(pc # "traverse")
  /\ []<>(pc # "render_tree")

(* ------------------------------------------------------------------ *)
(* The decision cache on its own: any sequence of rule loads and of     *)
(* calls of cached_should_exclude.                                      *)
(* ------------------------------------------------------------------ *)

CachePaths == {p_important, p_other, p_Build, p_Build_important}
TypeStrs == {"dir", "file"}
CacheRuleFiles ==
  {Absent, RuleFile(<<l_star_log>>), RuleFile(<<l_Build_slash>>),
   RuleFile(<<l_star_log, l_not_important>>)}

InitCache ==
  /\ pc = "cache"
  /\ args = [directory |-> "given", include_files |-> {},
             max_file_size |-> DefaultMaxFileSize, max_workers |-> MaxPool]
  /\ rule_files = [global |-> NotFound, target |-> Absent]
  /\ files = {}
  /\ st_size = [f \in UserFiles |-> 0]
  /\ listing = [d \in AllDirs \cup {Root} |-> "ok"]
  /\ path_match_cache = NoCache
  /\ global_pathspec = <<>>
  /\ target_pathspec = <<>>
  /\ combined_pathspec = <<>>
  /\ files_to_process = <<>>
  /\ futures = <<>>
  /\ combined_contents = <<>>
  /\ output_file = NoFile
  /\ tree_file = NoFile
  /\ tree_output = <<>>
  /\ exit_status = <<>>
  /\ log = {}
  /\ deletes = 0
  /\ query = NoQuery

\* The verdict the last call returned, as a cache entry.
LastVerdict ==
  IF query.path = <<>> THEN <<>>
  ELSE <<query.path, query.type_str>> :> query.excluded

\* A variant of the load that leaves the cache as it is.
CacheLoadKeepsCache(rule_file) ==
  /\ pc = "cache"
  /\ combined_pathspec' = load_combineignore(rule_file)
  /\ query' = [NoQuery EXCEPT !.dropped = LastVerdict]
  /\ UNCHANGED <<pc, args, rule_files, files, st_size, listing, global_pathspec,
                 target_pathspec, files_to_process, futures, combined_contents,
                 output_file, tree_file, tree_output, exit_status, log, deletes,
                 path_match_cache>>

\* load_combineignore(rule_file): the cache is cleared and the patterns of
\* the file become the matcher in use.  query.first forgets the calls made
\* before the load, and query.dropped holds the verdict of the last call
\* before the load, which the load cleared.
CacheLoad(rule_file) ==
  /\ pc = "cache"
  /\ path_match_cache' = NoCache
  /\ combined_pathspec' = load_combineignore(rule_file)
  /\ query' = [NoQuery EXCEPT !.dropped = LastVerdict]
  /\ UNCHANGED <<pc, args, rule_files, files, st_size, listing, global_pathspec,
                 target_pathspec, files_to_process, futures, combined_contents,
                 output_file, tree_file, tree_output, exit_status, log, deletes>>

\* One call of cached_should_exclude.  query records the call, its verdict
\* and, per key, the verdict of the first call since the last rule load.
CacheQuery(path, type_str) ==
  /\ pc = "cache"
  /\ LET r == cached_should_exclude(path, type_str, combined_pathspec,
                                    path_match_cache)
         key == <<path, type_str>>
     IN /\ path_match_cache' = r.cache
        /\ query' = [path |-> path, type_str |-> type_str,
                     excluded |-> r.excluded,
                     repeated |-> key \in DOMAIN query.first,
                     first |-> IF key \in DOMAIN query.first THEN query.first
                               ELSE query.first @@ (key :> r.excluded),
                     dropped |-> query.dropped]
  /\ UNCHANGED <<pc, args, rule_files, files, st_size, listing, global_pathspec,
                 target_pathspec, combined_pathspec, files_to_process, futures,
                 combined_contents, output_file, tree_file, tree_output,
                 exit_status, log, deletes>>

NextCache ==
  \/ \E rule_file \in CacheRuleFiles : CacheLoad(rule_file)
  \/ \E path \in CachePaths, type_str \in TypeStrs : CacheQuery(path, type_str)

SpecCache == InitCache /\ [][NextCache]_vars

(* ------------------------------------------------------------------ *)
(* Vocabulary of the properties.                                        *)
(* ------------------------------------------------------------------ *)

Candidates == Range(files_to_process)

\* main() has passed the walk / the sort / the write of the blocks.
Walked == pc \notin {"load_global", "load_target", "combine", "clean_output",
                     "clean_tree", "traverse", "cache"}
       /\ "Error removing existing output file" \notin log
Sorted == Walked /\ pc \notin {"submit", "reading"}
BlocksWritten == output_file.state = "written"
TreeRendered == tree_output # <<>>

\* The candidates in increasing order of a string key, built without
\* reference to any completion order.
RECURSIVE IncreasingByPathStr(_)
IncreasingByPathStr(S) ==
  IF S = {} THEN <<>>
  ELSE LET least == CHOOSE x \in S :
                      \A y \in S \ {x} : StrLess(PathStr(x), PathStr(y))
       IN <<least>> \o IncreasingByPathStr(S \ {least})

\* What reading a candidate yields in the current state of the disk.
ExpectedBlock(f) ==
  IF f \in ExistingFiles /\ CanOpen(f)
  THEN [source |-> f, error |-> FALSE, text |-> Decode(FileBytes(f))]
  ELSE [source |-> f, error |-> TRUE, text |-> <<>>]

ExpectedBlocks ==
  LET order == IncreasingByPathStr(Candidates)
  IN [i \in 1..Len(order) |-> ExpectedBlock(order[i])]

\* The verdict of the combined matcher, computed from the two loaded rule
\* sets: the last rule, global rules first, that matches the path.
LastMatchVerdict(path, is_dir) ==
  LET rules == global_pathspec \o target_pathspec
      hits == {i \in 1..Len(rules) : PatternMatches(rules[i], path, is_dir)}
  IN hits # {} /\ rules[CHOOSE i \in hits : \A j \in hits : j <= i].include

\* The proper ancestors of a path below the root.
Ancestors(p) == {SubSeq(p, 1, n) : n \in 1..(Len(p) - 1)}

UnderExcludedDir(p) == \E d \in Ancestors(p) : LastMatchVerdict(d, TRUE)

\* The files and the entries the rendered tree shows.
TreePaths == {tree_output[1].lines[i].path : i \in 1..Len(tree_output[1].lines)}
TreeFilePaths == TreePaths \ AllDirs

(* ------------------------------------------------------------------ *)
(* C1  Determinism under completion order.                              *)
(* ------------------------------------------------------------------ *)

\* C1: whatever order the reads complete and are collected in, the list
\* main() sorts and the blocks it writes are the blocks of the candidates
\* in increasing order of str(path): a function of the candidate set and of
\* the files on disk alone.
C1_OutputIndependentOfCompletionOrder ==
  /\ Sorted =>
       [i \in 1..Len(combined_contents) |-> combined_contents[i][2]] = ExpectedBlocks
  /\ BlocksWritten => output_file.blocks = ExpectedBlocks

\* The reads were collected in an order that is neither the submission
\* order nor the sorted order, and the pool has joined.
C1_Witness ==
  /\ pc = "reading"
  /\ Len(files_to_process) >= 3
  /\ \A i \in DOMAIN futures : futures[i].state = "collected"
  /\ [i \in 1..Len(combined_contents) |-> combined_contents[i][1]]
       \notin {files_to_process, IncreasingByPathStr(Candidates)}

(* ------------------------------------------------------------------ *)
(* C2  Ordering by relative path.                                       *)
(* ------------------------------------------------------------------ *)

\* C2: in the combined output every candidate has exactly one block, and
\* for two candidates whose relative paths satisfy pA < pB as strings, the
\* block of A comes before the block of B.
C2_BlocksOrderedByRelativePath ==
  BlocksWritten =>
    /\ Len(output_file.blocks) = Cardinality(Candidates)
    /\ \A f \in Candidates : \E i \in DOMAIN output_file.blocks :
         output_file.blocks[i].source = f
    /\ \A i, j \in DOMAIN output_file.blocks :
         StrLess(JoinSlash(output_file.blocks[i].source),
                 JoinSlash(output_file.blocks[j].source)) => i < j

\* The walk lists a/b before a-b (directories first), and "a-b" < "a/b" as
\* strings: in the output the block of a-b precedes the block of a/b, the
\* sort key being the path under a resolved root.
C2_Witness ==
  /\ BlocksWritten
  /\ RootStr # <<>>
  /\ files_to_process = <<p_a_b, p_a_dash_b>>
  /\ output_file.blocks[1].source = p_a_dash_b
  /\ output_file.blocks[2].source = p_a_b

(* ------------------------------------------------------------------ *)
(* C3  Override supremacy.                                              *)
(* ------------------------------------------------------------------ *)

\* C3: right after the walk, every existing file of the explicit-include
\* set is a candidate.  (Stated for the runs in which every directory can
\* be listed; the claim asks for it in all runs.)
C3_OverrideAlwaysCandidate ==
  (pc = "submit" /\ deletes = 0 /\ \A d \in DOMAIN listing : listing[d] = "ok")
    => \A f \in args.include_files \cap ExistingFiles : f \in Candidates

(* ------------------------------------------------------------------ *)
(* C4  Directory pruning.                                               *)
(* ------------------------------------------------------------------ *)

\* C4: no candidate and no entry of the rendered tree lies below a
\* directory the combined matcher excludes, and no excluded directory is
\* rendered.
C4_ExcludedDirectoryPruned ==
  /\ Walked => \A f \in Candidates : ~UnderExcludedDir(f)
  /\ TreeRendered =>
       \A p \in TreePaths :
         /\ ~UnderExcludedDir(p)
         /\ p \in AllDirs => ~LastMatchVerdict(p, TRUE)

\* Build is excluded; Build/important.log exists, is in the explicit-include
\* set and is, by the target rule, not excluded on its own; the walk and
\* the rendering have both run.
C4_Witness ==
  /\ TreeRendered
  /\ LastMatchVerdict(p_Build, TRUE)
  /\ p_Build_important \in files
  /\ \/ p_Build_important \in args.include_files
     \/ ~LastMatchVerdict(p_Build_important, FALSE)

\* The same with the descendant in the explicit-include set.
C4_WitnessOverride ==
  C4_Witness /\ p_Build_important \in args.include_files

(* ------------------------------------------------------------------ *)
(* C5  Precedence of the target rules.                                  *)
(* ------------------------------------------------------------------ *)

\* C5: once combined, the matcher is the global rules followed by the
\* target rules; every verdict the walk or the rendering cached is the
\* verdict of the last matching rule; and with global rule *.log and target
\* rule !important.log, important.log is not excluded and other.log is.
C5_LastMatchWinsGlobalThenTarget ==
  /\ pc \notin {"load_global", "load_target", "combine", "cache"} =>
       combined_pathspec = global_pathspec \o target_pathspec
  /\ Walked =>
       \A key \in DOMAIN path_match_cache :
         path_match_cache[key] = LastMatchVerdict(key[1], key[2] = "dir")
  /\ (/\ Walked
      /\ rule_files.global = RuleFile(<<l_star_log>>)
      /\ rule_files.target = RuleFile(<<l_not_important>>)
      /\ listing[Root] = "ok")
       => /\ ~match_file(combined_pathspec, p_important, FALSE)
          /\ match_file(combined_pathspec, p_other, FALSE)
          /\ p_other \notin Candidates
          /\ (p_important \in files /\ deletes = 0 /\ StatSize(p_important) <= args.max_file_size * 1024)
               => p_important \in Candidates

\* The example of the claim: both files exist, important.log is a
\* candidate and other.log is not.
C5_Witness ==
  /\ Walked
  /\ rule_files.global = RuleFile(<<l_star_log>>)
  /\ rule_files.target = RuleFile(<<l_not_important>>)
  /\ {p_important, p_other} \subseteq files
  /\ p_important \in Candidates
  /\ p_other \notin Candidates

(* ------------------------------------------------------------------ *)
(* C6  Fault isolation of the reads.                                    *)
(* ------------------------------------------------------------------ *)

\* C6: once the pool has joined, the result of a candidate that can no
\* longer be opened is the error banner under that candidate's header, the
\* result of every other candidate is its whole decoded content, and the
\* blocks written are those results, one per candidate, in increasing order
\* of the sort key.
C6_ReadFailureIsolated ==
  /\ Sorted =>
       /\ {combined_contents[i][1] : i \in DOMAIN combined_contents} = Candidates
       /\ Len(combined_contents) = Len(files_to_process)
       /\ \A i \in DOMAIN combined_contents :
            LET f == combined_contents[i][1]
                r == combined_contents[i][2]
            IN /\ r.source = f
               /\ IF f \in ExistingFiles /\ CanOpen(f)
                  THEN ~r.error /\ r.text = Decode(FileBytes(f))
                  ELSE r.error /\ r.text = <<>>
  /\ BlocksWritten =>
       /\ output_file.blocks =
            [i \in 1..Len(combined_contents) |-> combined_contents[i][2]]
       /\ \A i, j \in DOMAIN output_file.blocks :
            i < j => StrLess(PathStr(output_file.blocks[i].source),
                             PathStr(output_file.blocks[j].source))

\* A candidate was deleted after the walk; the output is written and holds
\* its error banner next to the whole content of another candidate.
C6_Witness ==
  /\ BlocksWritten
  /\ deletes = 1
  /\ \E i, j \in DOMAIN output_file.blocks :
       /\ output_file.blocks[i].error
       /\ output_file.blocks[i].source \in UserFiles \ files
       /\ ~output_file.blocks[j].error
       /\ output_file.blocks[j].text # <<>>

(* ------------------------------------------------------------------ *)
(* C7  Idempotent cache (checked under SpecCache).                      *)
(* ------------------------------------------------------------------ *)

\* C7: a call of cached_should_exclude for a key already queried since the
\* last rule load returns the verdict of the first call and leaves the
\* cache and the matcher as they were.
C7_RepeatedQuerySameVerdictNoChange ==
  [][\A path \in CachePaths, type_str \in TypeStrs :
       (CacheQuery(path, type_str) /\ <<path, type_str>> \in DOMAIN query.first)
         => /\ query'.excluded = query.first[<<path, type_str>>]
            /\ path_match_cache' = path_match_cache
            /\ combined_pathspec' = combined_pathspec]_vars

\* A repeated query, of a key whose verdict is "not excluded" while other
\* keys are excluded.
C7_Witness ==
  /\ query.repeated
  /\ ~query.excluded
  /\ \E key \in DOMAIN path_match_cache : path_match_cache[key]

(* ------------------------------------------------------------------ *)
(* C8  The rendered files against the candidates.                       *)
(* ------------------------------------------------------------------ *)

\* Every directory from the root down to the parent of p is listed without
\* error and none of them is excluded.
Reached(p) ==
  /\ listing[Root] = "ok"
  /\ \A d \in Ancestors(p) : listing[d] = "ok" /\ ~LastMatchVerdict(d, TRUE)

\* The files the renderer shows and the walker leaves out: not overridden,
\* passing the patterns, and either above the size limit or the combined
\* output the run has written below the root since the walk.
RenderedOnly ==
  {f \in ExistingFiles :
     /\ Reached(f)
     /\ f \notin args.include_files
     /\ ~LastMatchVerdict(f, FALSE)
     /\ \/ StatSize(f) > args.max_file_size * 1024
        \/ f = p_combined}

\* C8 as claimed: with no file deleted between the two passes, the files
\* of the rendered tree are exactly the candidates.
C8_TreeFilesEqualCandidates ==
  (TreeRendered /\ deletes = 0) => TreeFilePaths = Candidates

\* C8 as amended: with no file deleted between the two passes, the files
\* of the rendered tree are the candidates together with the files that
\* pass the override and pattern tests but exceed the size limit, and the
\* combined output when the run wrote it below the root.
C8_TreeFilesAreCandidatesPlusOversize ==
  (TreeRendered /\ deletes = 0) => TreeFilePaths = Candidates \cup RenderedOnly

\* An oversize file is rendered and is not a candidate, next to a file
\* that is both.
C8_Witness ==
  /\ TreeRendered
  /\ deletes = 0
  /\ \E f \in TreeFilePaths \ Candidates : StatSize(f) > args.max_file_size * 1024
  /\ Candidates \cap UserFiles # {}

(* ------------------------------------------------------------------ *)
(* C9  A failing open of the combined output.                           *)
(* ------------------------------------------------------------------ *)

\* C9: when opening the combined output for writing failed, the process
\* ends with a non-zero exit status.
C9_OutputOpenFailureExitsNonZero ==
  (pc = "exited" /\ "raised: output_file.open(w)" \in log) => exit_status # <<0>>

(* ------------------------------------------------------------------ *)
(* C10  A failing removal of a stale output.                            *)
(* ------------------------------------------------------------------ *)

\* C10: when removing a stale combined or tree file failed, the process
\* has exited with status 1 and nothing was walked, read, rendered or
\* written.
C10_RemovalFailureExitsBeforeWork ==
  "Error removing existing output file" \in log =>
    /\ pc = "exited"
    /\ exit_status = <<1>>
    /\ files_to_process = <<>>
    /\ path_match_cache = NoCache
    /\ futures = <<>>
    /\ combined_contents = <<>>
    /\ tree_output = <<>>
    /\ output_file.state # "written"
    /\ tree_file.state # "written"
    /\ "Program completed" \notin log

\* The stale combined file was removed, the removal of the stale tree file
\* failed, and the process has exited.
C10_Witness ==
  /\ "Error removing existing output file" \in log
  /\ exit_status = <<1>>
  /\ output_file.state = "absent"
  /\ tree_file.state = "stale"

(* ------------------------------------------------------------------ *)
(* C11  The combined file at the end of a run.                          *)
(* ------------------------------------------------------------------ *)

\* The combined file holds the rendered tree in front of one block per
\* candidate.
CombinedComplete ==
  /\ output_file.state = "written"
  /\ tree_output # <<>>
  /\ output_file.tree = tree_output
  /\ Len(output_file.blocks) = Len(files_to_process)
  /\ {output_file.blocks[i].source : i \in DOMAIN output_file.blocks} = Candidates

\* C11: when the process has exited, the combined file of the run either
\* does not exist or is complete, the tree followed by the block of every
\* candidate.  (A file left by an earlier run, which this run could not
\* remove, is not a file of the run.)
C11_CombinedFileAbsentOrComplete ==
  pc = "exited" =>
    \/ output_file.state \in {"absent", "stale"}
    \/ CombinedComplete

(* ------------------------------------------------------------------ *)
(* C12  The completion line (checked under SpecFair).                   *)
(* ------------------------------------------------------------------ *)

\* C12 as claimed: every run logs the completion line, so a process that
\* has exited has logged it.
C12_EveryRunEmitsCompletionLine ==
  pc = "exited" => "Program completed" \in log

\* C12 as amended: every run that gets past the removal of the stale
\* outputs eventually logs the completion line, whichever later step
\* failed.
C12_RunPastCleanupEmitsCompletionLine ==
  (pc = "traverse") ~> ("Program completed" \in log)

\* A step inside the try block failed, and the completion line is logged.
C12_Witness ==
  /\ "An error occurred during processing." \in log
  /\ "Program completed" \in log
  /\ pc = "exited"

(* ------------------------------------------------------------------ *)
(* C13  One task and one result per candidate.                          *)
(* ------------------------------------------------------------------ *)

\* main() has submitted the candidates to the pool.
Submitted == Walked /\ pc # "submit"

\* C13: once submitted, the tasks are the candidates, one task each; no
\* task is read more than once; the results collected so far are those of
\* distinct finished tasks, each tagged with the path of its task; and
\* after the join the list holds exactly one entry per candidate, for the
\* reads that failed as for those that succeeded.
C13_OneTaskOneResultPerCandidate ==
  Submitted =>
    /\ Len(futures) = Len(files_to_process)
    /\ \A i \in DOMAIN futures : futures[i].file = files_to_process[i]
    /\ \A i, j \in DOMAIN futures : i # j => futures[i].file # futures[j].file
    /\ \A i \in DOMAIN futures :
         futures[i].reads = IF futures[i].state = "pending" THEN 0 ELSE 1
    /\ Len(combined_contents)
         = Cardinality({i \in DOMAIN futures : futures[i].state = "collected"})
    /\ \A k \in DOMAIN combined_contents :
         /\ \E i \in DOMAIN futures :
              /\ futures[i].state = "collected"
              /\ combined_contents[k] = <<futures[i].file, futures[i].result>>
         /\ combined_contents[k][2].source = combined_contents[k][1]
         /\ \A m \in DOMAIN combined_contents :
              m # k => combined_contents[m][1] # combined_contents[k][1]
    /\ Sorted =>
         {combined_contents[k][1] : k \in DOMAIN combined_contents} = Candidates

\* The pool has joined on three candidates, one of whose reads failed.
C13_Witness ==
  /\ Sorted
  /\ Len(files_to_process) = 3
  /\ \E k, m \in DOMAIN combined_contents :
       combined_contents[k][2].error /\ ~combined_contents[m][2].error

(* ------------------------------------------------------------------ *)
(* C14  The bound of the pool.                                          *)
(* ------------------------------------------------------------------ *)

\* C14: at every moment the tasks in the hands of the workers are at most
\* max_workers, and a task that is read is one of them.
C14_ConcurrentReadsWithinPoolSize ==
  [][/\ Cardinality(Running) <= args.max_workers
     /\ \A i \in DOMAIN futures :
          FinishRead(i) =>
            Cardinality({j \in DOMAIN futures :
                           j # i /\ futures[j].state = "pending" /\ j < i})
              < args.max_workers]_vars

\* More tasks are pending than the pool has workers: the pool is full and
\* a task waits.
C14_Witness ==
  /\ pc = "reading"
  /\ Cardinality(Running) = args.max_workers
  /\ \E i \in DOMAIN futures : futures[i].state = "pending" /\ i \notin Running
  /\ \E i \in DOMAIN futures : futures[i].state # "pending"

(* ------------------------------------------------------------------ *)
(* C15  The combined file is written after the join.                    *)
(* ------------------------------------------------------------------ *)

\* Every submitted task has been read and its result collected.
Joined == \A i \in DOMAIN futures : futures[i].state = "collected"

\* C15: a step that writes the combined file is a step of main() at the
\* write or at the prepend, taken when every submitted read has completed;
\* the step of a worker leaves the file alone.
C15_OutputWrittenOnlyAfterJoin ==
  [][/\ (output_file' # output_file /\ output_file'.state = "written")
          => /\ pc \in {"write_combined", "prepend"}
             /\ Submitted
             /\ Len(futures) = Len(files_to_process)
             /\ Joined
             /\ Running = {}
     /\ \A i \in DOMAIN futures : FinishRead(i) => output_file' = output_file]_vars

\* The combined file is written after a read phase with at least two
\* tasks.
C15_Witness ==
  /\ BlocksWritten
  /\ Len(futures) >= 2
  /\ Joined

(* ------------------------------------------------------------------ *)
(* C16  The decision cache during the read phase.                       *)
(* ------------------------------------------------------------------ *)

\* C16: a step that changes the decision cache is the walk, taken before
\* any task is submitted, or the rendering, taken after every read has
\* completed; no step of the read phase changes it.
C16_CacheNotWrittenDuringReads ==
  [][/\ path_match_cache' # path_match_cache
          => \/ pc = "traverse" /\ futures = <<>>
             \/ pc = "render_tree" /\ Submitted /\ Joined /\ Running = {}
     /\ pc = "reading" => path_match_cache' = path_match_cache]_vars

\* The walk cached the verdict of a candidate before the reads, and the
\* rendering, after them, added the verdict of a file the walk had left
\* out for its size.
C16_Witness ==
  /\ pc = "write_tree"
  /\ Len(futures) >= 1
  /\ \E key \in DOMAIN path_match_cache : key[1] \in Candidates
  /\ \E key \in DOMAIN path_match_cache :
       /\ key[2] = "file"
       /\ key[1] \notin Candidates
       /\ StatSize(key[1]) > args.max_file_size * 1024

(* ------------------------------------------------------------------ *)
(* C17  No stale verdict (checked under SpecCache).                     *)
(* ------------------------------------------------------------------ *)

\* C17: right after a load the cache is empty, and at any time every
\* verdict the cache holds, and the verdict the last call returned, is the
\* verdict of the matcher in use for that path and kind.
C17_LoadClearsCacheNoStaleVerdict ==
  /\ query.path = <<>> => path_match_cache = NoCache
  /\ \A key \in DOMAIN path_match_cache :
       path_match_cache[key] = match_file(combined_pathspec, key[1], key[2] = "dir")
  /\ query.path # <<>> =>
       query.excluded
         = match_file(combined_pathspec, query.path, query.type_str = "dir")

\* The last load cleared a verdict that the rules now in use reverse: the
\* call made since returned the new verdict.
C17_Witness ==
  /\ query.path # <<>>
  /\ <<query.path, query.type_str>> \in DOMAIN query.dropped
  /\ query.dropped[<<query.path, query.type_str>>] # query.excluded

(* ------------------------------------------------------------------ *)
(* C18  A rule file that is absent or cannot be read.                   *)
(* ------------------------------------------------------------------ *)

\* The rule file cannot be loaded: it is absent, or it cannot be opened
\* (the path the upward search returns when it finds nothing is one).
NoRules(rule_file) == ~rule_file.exists \/ ~rule_file.readable

\* C18: a rule file that is absent or cannot be read loads as the empty
\* matcher; when neither file can be loaded the combined matcher excludes
\* no path and no verdict of the run is an exclusion; and the only exit
\* with status 1 is the one of the cleanup loop.
C18_UnloadableRuleFileIsEmptyMatcher ==
  /\ (pc # "load_global" /\ NoRules(rule_files.global)) => global_pathspec = <<>>
  /\ (pc \notin {"load_global", "load_target"} /\ NoRules(rule_files.target))
       => target_pathspec = <<>>
  /\ (/\ pc \notin {"load_global", "load_target", "combine"}
      /\ NoRules(rule_files.global)
      /\ NoRules(rule_files.target))
       => /\ \A p \in AllFiles \cup AllDirs, is_dir \in BOOLEAN :
               ~match_file(combined_pathspec, p, is_dir)
          /\ \A key \in DOMAIN path_match_cache : ~path_match_cache[key]
  /\ exit_status = <<1>> => "Error removing existing output file" \in log

\* Neither rule file can be loaded, the target one being unreadable; the
\* run went on to its end and a file the unreadable rules name is a
\* candidate.
C18_Witness ==
  /\ rule_files.global = NotFound
  /\ rule_files.target = Unreadable
  /\ pc = "exited"
  /\ exit_status = <<0>>
  /\ p_other \in Candidates
  /\ BlocksWritten

(* ------------------------------------------------------------------ *)
(* C19  A directory the walk cannot list.                               *)
(* ------------------------------------------------------------------ *)

\* The candidates of a walk as a set: the existing files reached through
\* listable, non-excluded directories that are overridden, or are within
\* the size limit and not excluded by the rules.
WalkExpected ==
  {f \in ExistingFiles :
     /\ Reached(f)
     /\ \/ f \in args.include_files
        \/ /\ ~StatRaises(f)
           /\ StatSize(f) <= args.max_file_size * 1024
           /\ ~LastMatchVerdict(f, FALSE)}

\* C19: right after the walk the candidates are exactly the files the walk
\* can reach and keep: a directory whose listing failed, with a permission
\* error or with any other, contributes none, and the files of its
\* siblings and of its parent are all there; the walk itself never fails.
C19_UnlistableDirectoryContributesNothing ==
  /\ (pc = "submit" /\ deletes = 0) =>
       /\ Candidates = WalkExpected
       /\ \A f \in Candidates : listing[Parent(f)] = "ok"
  /\ pc \in {"submit", "reading"}
       => "An error occurred during processing." \notin log

\* The listing of directory a failed; a/b exists and is no candidate,
\* while a file of the root, listed after a, is one.
C19_Witness ==
  /\ pc = "submit"
  /\ deletes = 0
  /\ listing[p_a] # "ok"
  /\ p_a_b \in files
  /\ p_a_b \notin Candidates
  /\ p_a_dash_b \in Candidates

(* ------------------------------------------------------------------ *)
(* C20  A directory the rendering cannot list.                          *)
(* ------------------------------------------------------------------ *)

\* No open of an output file failed in the run.
OutputsOpened ==
  log \cap {"raised: output_file.open(w)", "raised: tree_file.open(w)",
            "raised: output_file.open(r+)"} = {}

\* C20: in a run where the listing of a directory fails, for a permission
\* error or for any other reason, and every output file can be opened, the
\* tree is rendered without the entries of that directory, the tree file
\* is written and the tree is in front of the combined file.
C20_UnlistableDirectoryStillRendersTree ==
  (/\ pc = "exited"
   /\ exit_status = <<0>>
   /\ OutputsOpened
   /\ \E d \in DOMAIN listing : listing[d] # "ok")
    => /\ tree_output # <<>>
       /\ \A p \in TreePaths : listing[Parent(p)] = "ok"
       /\ tree_file = Written(tree_output, <<>>)
       /\ output_file.state = "written"
       /\ output_file.tree = tree_output

(* ------------------------------------------------------------------ *)
(* C21  Bytes that cannot be decoded.                                   *)
(* ------------------------------------------------------------------ *)

\* The results of the reads of files that hold an undecodable byte.
UndecodableResults ==
  {combined_contents[i][2] : i \in {k \in DOMAIN combined_contents :
     /\ combined_contents[k][1] \in ExistingFiles
     /\ CanOpen(combined_contents[k][1])
     /\ \E n \in DOMAIN FileBytes(combined_contents[k][1]) :
          FileBytes(combined_contents[k][1])[n] = "\\xff"}}

\* C21 as claimed: the read of a file with undecodable bytes succeeds and
\* the content holds a mark at every position of such a byte.
C21_UndecodableBytesReplacedByMark ==
  \A r \in UndecodableResults :
    /\ ~r.error
    /\ Len(r.text) = Len(FileBytes(r.source))
    /\ \A n \in DOMAIN r.text :
         r.text[n] = IF FileBytes(r.source)[n] = "\\xff" THEN "?"
                     ELSE FileBytes(r.source)[n]

\* C21 as amended: the read of a file with undecodable bytes succeeds and
\* the content is the decodable bytes alone, in their order: nothing
\* stands where a byte could not be decoded.
C21_UndecodableBytesDropped ==
  \A r \in UndecodableResults :
    /\ ~r.error
    /\ r.text = SelectSeq(FileBytes(r.source), LAMBDA c : c # "\\xff")

\* other.log, whose second byte cannot be decoded, has been read.
C21_Witness ==
  /\ Sorted
  /\ \E r \in UndecodableResults : r.source = p_other /\ r.text = <<"o", "k">>

(* ------------------------------------------------------------------ *)
(* C22  The two artifacts of a run without failure.                     *)
(* ------------------------------------------------------------------ *)

\* The run has ended with no failure: the handler of main ran for nothing.
RunWithoutFailure ==
  /\ pc = "exited"
  /\ exit_status = <<0>>
  /\ "An error occurred during processing." \notin log

\* C22: after a run with no failure the combined file is the content of
\* the tree file, then a blank line, then the blocks of all candidates in
\* sorted order; the tree file holds the rendered tree and nothing else.
C22_CombinedIsTreeBlankLineBlocks ==
  RunWithoutFailure =>
    /\ tree_file.state = "written"
    /\ tree_file.tree = tree_output
    /\ tree_file.sep = <<>>
    /\ tree_file.blocks = <<>>
    /\ tree_output # <<>>
    /\ output_file.state = "written"
    /\ output_file.tree = tree_file.tree
    /\ output_file.sep = BlankLine
    /\ Len(output_file.blocks) = Len(files_to_process)
    /\ \A i \in DOMAIN output_file.blocks :
         /\ output_file.blocks[i] = combined_contents[i][2]
         /\ output_file.blocks[i].source = IncreasingByPathStr(Candidates)[i]

\* A run without failure that wrote two blocks behind a tree with lines.
C22_Witness ==
  /\ RunWithoutFailure
  /\ Len(output_file.blocks) = 2
  /\ tree_output[1].lines # <<>>

(* ------------------------------------------------------------------ *)
(* C23  The size limit of the walk.                                     *)
(* ------------------------------------------------------------------ *)

\* The walk has just returned and nothing has been deleted since.
JustWalked == pc = "submit" /\ deletes = 0

\* The files outside the explicit-include set, whose stat() succeeds, that
\* the walk has tested.
SizeTested ==
  {f \in files : Reached(f) /\ f \notin args.include_files /\ ~StatRaises(f)}

\* C23: a file outside the explicit-include set whose size is strictly
\* greater than max_file_size_kb * 1024 is excluded by the walk and no
\* pattern has been consulted for it (the cache holds no verdict for it);
\* a file of exactly max_file_size_kb * 1024 bytes goes on to the patterns
\* and is a candidate when they do not exclude it.
C23_SizeLimitStrictBeforePatterns ==
  JustWalked =>
    \A f \in SizeTested :
      /\ st_size[f] > args.max_file_size * 1024 =>
           /\ f \notin Candidates
           /\ <<f, "file">> \notin DOMAIN path_match_cache
      /\ st_size[f] = args.max_file_size * 1024 =>
           /\ <<f, "file">> \in DOMAIN path_match_cache
           /\ f \in Candidates <=> ~LastMatchVerdict(f, FALSE)

\* One file of one byte more than the limit, which no rule excludes, was
\* left out next to a candidate of exactly the limit.
C23_Witness ==
  /\ JustWalked
  /\ \E f, g \in SizeTested :
       /\ st_size[f] = args.max_file_size * 1024 + 1
       /\ ~LastMatchVerdict(f, FALSE)
       /\ f \notin Candidates
       /\ st_size[g] = args.max_file_size * 1024
       /\ g \in Candidates

(* ------------------------------------------------------------------ *)
(* C26  A failing exclusion check.                                      *)
(* ------------------------------------------------------------------ *)

\* The files outside the explicit-include set that the walk has tested and
\* whose stat() raised inside should_exclude_file.
StatFailed ==
  {f \in files : Reached(f) /\ f \notin args.include_files /\ StatRaises(f)}

\* C26: when stat() of a tested file raises, should_exclude_file answers
\* True and raises nothing: the walk goes on to its end without the
\* handler of main, the file is no candidate, and neither the walk nor the
\* rendering stores a verdict for it in the decision cache.  (Every entry
\* the two passes test lies under the root, so relative_to never raises in
\* a run and should_exclude_directory never takes its handler.)
C26_FailedCheckExcludesWithoutCaching ==
  /\ JustWalked =>
       /\ "An error occurred during processing." \notin log
       /\ \A f \in StatFailed : f \notin Candidates
  /\ deletes = 0 =>
       \A f \in StatFailed : <<f, "file">> \notin DOMAIN path_match_cache

\* The walk met a file whose stat() raised, which no rule excludes, and
\* tested a directory and another file after it.
C26_Witness ==
  /\ JustWalked
  /\ p_a_b \in StatFailed
  /\ ~LastMatchVerdict(p_a_b, FALSE)
  /\ <<p_a, "dir">> \in DOMAIN path_match_cache
  /\ p_a_dash_b \in Candidates

(* ------------------------------------------------------------------ *)
(* C24  The order of the list the walk returns.                         *)
(* ------------------------------------------------------------------ *)

\* Depth-first order of two files: at the directory where their paths part,
\* a file below a subdirectory comes before a direct file, and two
\* subdirectories, or two direct files, come in the order of their names
\* with case folded.
WalkBefore(f, g) ==
  LET k == CHOOSE n \in 1..Len(f) :
             /\ n <= Len(g)
             /\ f[n] # g[n]
             /\ \A m \in 1..(n - 1) : f[m] = g[m]
      f_below == Len(f) > k
      g_below == Len(g) > k
  IN IF f_below = g_below
     THEN StrLess(Lower(f[k]), Lower(g[k]))
     ELSE f_below

\* C24: the list returned by traverse_and_collect_files is in depth-first
\* order: for every directory the candidates of its subdirectories, taken
\* in case-insensitive name order, come before its direct files, which are
\* in case-insensitive name order.
C24_WalkListDepthFirst ==
  JustWalked =>
    \A i, j \in DOMAIN files_to_process :
      i < j => WalkBefore(files_to_process[i], files_to_process[j])

\* The walk returned a/b, Build/important.log and a-b in this order: the
\* directory a before Build although "B" sorts before "a", and both before
\* the direct file a-b.
C24_Witness ==
  /\ JustWalked
  /\ files_to_process = <<p_a_b, p_Build_important, p_a_dash_b>>

(* ------------------------------------------------------------------ *)
(* C25  Nothing below an excluded directory is tested.                  *)
(* ------------------------------------------------------------------ *)

\* The directories for which the cache holds the verdict "excluded".
CachedExcludedDirs ==
  {key[1] : key \in {k \in DOMAIN path_match_cache :
                       k[2] = "dir" /\ path_match_cache[k]}}

\* C25: at every point of a run the decision cache holds no key whose path
\* lies strictly inside a directory for which it holds the verdict
\* "excluded".
C25_NoKeyBelowExcludedDirectory ==
  \A key \in DOMAIN path_match_cache :
    Ancestors(key[1]) \cap CachedExcludedDirs = {}

\* Both passes are over, Build was found excluded with a file in it, and
\* the file of another directory was tested.
C25_Witness ==
  /\ TreeRendered
  /\ p_Build \in CachedExcludedDirs
  /\ p_Build_important \in files
  /\ <<p_a_b, "file">> \in DOMAIN path_match_cache

(* ------------------------------------------------------------------ *)
(* C27  The tree against the candidates.                                *)
(* ------------------------------------------------------------------ *)

\* Both passes are over and no file was deleted by anyone during the run.
BothPassesUnchanged == TreeRendered /\ deletes = 0

\* The files outside the explicit-include set that the passes reach, that
\* the patterns do not exclude and that exceed the size limit of the walk.
OversizePassing ==
  {f \in files :
     /\ Reached(f)
     /\ f \notin args.include_files
     /\ ~LastMatchVerdict(f, FALSE)
     /\ st_size[f] > args.max_file_size * 1024}

\* The files rendered in the tree that are no candidates.
RenderedNotCandidate == TreeFilePaths \ Candidates

\* C27 as claimed: every candidate is rendered, and the rendered files that
\* are no candidates are exactly the files outside the explicit-include
\* set that pass the patterns and exceed the size limit.
C27_RenderedNonCandidatesAreOversize ==
  BothPassesUnchanged =>
    /\ Candidates \subseteq TreeFilePaths
    /\ RenderedNotCandidate = OversizePassing

\* C27 as amended: every candidate is rendered, and the rendered files that
\* are no candidates are the oversize files above and, when the outputs lie
\* under the root, in a directory the rendering reaches, and no pattern
\* excludes it, the combined output the run itself wrote between the walk
\* and the rendering.
C27_RenderedNonCandidatesAreOversizeOrCombined ==
  BothPassesUnchanged =>
    /\ Candidates \subseteq TreeFilePaths
    /\ OversizePassing \subseteq RenderedNotCandidate
    /\ RenderedNotCandidate \ OversizePassing \subseteq {p_combined}
    /\ p_combined \in RenderedNotCandidate <=>
         /\ ArtifactsUnderRoot
         /\ Reached(p_combined)
         /\ ~LastMatchVerdict(p_combined, FALSE)

\* The tree shows the combined output and an oversize file, neither of
\* them a candidate, next to a candidate.
C27_Witness ==
  /\ BothPassesUnchanged
  /\ p_combined \in RenderedNotCandidate
  /\ OversizePassing # {}
  /\ Candidates \cap TreeFilePaths # {}

(* ------------------------------------------------------------------ *)
(* C28  The connectors of the tree.                                     *)
(* ------------------------------------------------------------------ *)

\* The lines of the rendered tree.
TreeLines == tree_output[1].lines

\* Line n is the last line rendered for an entry of its directory.
LastRenderedOfDirectory(n) ==
  \A m \in (n + 1)..Len(TreeLines) :
    Parent(TreeLines[m].path) # Parent(TreeLines[n].path)

\* The continuation the children of the entry of line n carry: the last
\* element of their prefix.
ChildContinuations(n) ==
  {TreeLines[m].prefix[Len(TreeLines[m].prefix)] :
     m \in {k \in DOMAIN TreeLines :
              Parent(TreeLines[k].path) = TreeLines[n].path}}

\* C28: among the entries rendered for one directory the last one carries
\* the closing connector, with the blank continuation for its children,
\* and every other one the branch connector, with the bar continuation,
\* also when entries of the directory are excluded.
C28_LastRenderedEntryClosesDirectory ==
  TreeRendered =>
    \A n \in DOMAIN TreeLines :
      IF LastRenderedOfDirectory(n)
      THEN /\ TreeLines[n].connector = ConnectorLast
           /\ ChildContinuations(n) \subseteq {ExtensionLast}
      ELSE /\ TreeLines[n].connector = ConnectorBranch
           /\ ChildContinuations(n) \subseteq {ExtensionBranch}

(* ------------------------------------------------------------------ *)
(* C29  The artifacts of the run among its own inputs.                  *)
(* ------------------------------------------------------------------ *)

\* The artifacts of the run that lie under the root, in a directory the
\* passes reach, and that no rule excludes.
ArtifactsInReach ==
  {f \in ArtifactFiles :
     /\ ArtifactsUnderRoot
     /\ Reached(f)
     /\ ~LastMatchVerdict(f, FALSE)}

\* C29: the combined output, the tree file and the debug log of the run,
\* when they lie under the root and match no exclude rule, are neither
\* candidates of the run nor files of its rendered tree.
C29_ArtifactsNeverIngested ==
  /\ Walked => Candidates \cap ArtifactsInReach = {}
  /\ TreeRendered => TreeFilePaths \cap ArtifactsInReach = {}

(* ------------------------------------------------------------------ *)
(* C30  Termination.                                                    *)
(* ------------------------------------------------------------------ *)

\* The call of the walk on the tree of the state returns: a list without
\* repetition of files that exist.
WalkReturns ==
  LET r == traverse_and_collect_files(Root, combined_pathspec,
                                      args.include_files, args.max_file_size,
                                      path_match_cache)
  IN /\ Range(r.files) \subseteq ExistingFiles
     /\ Len(r.files) = Cardinality(Range(r.files))

\* The call of the rendering on the tree of the state returns, with lines
\* or with an exception: at most one line per entry that exists.
RenderReturns ==
  LET r == generate_tree_structure(Root, combined_pathspec,
                                   args.include_files, <<>>, path_match_cache)
  IN /\ r.raised \in BOOLEAN
     /\ Len(r.lines) <= Cardinality(ExistingFiles \cup Dirs)

\* The run is over: every submitted read was made once and collected, and
\* the completion line is logged.
RunEnded ==
  /\ pc = "exited"
  /\ Len(futures) = Len(files_to_process)
  /\ \A i \in DOMAIN futures :
       futures[i].state = "collected" /\ futures[i].reads = 1
  /\ "Program completed" \in log

\* C30: on the finite tree of every state the walk and the rendering
\* return, and under fair scheduling of the main thread and of the workers
\* a run that has submitted its reads reaches its end: every submitted read
\* completes, the pool joins, and the completion line is logged.
C30_WalkRenderReturnAndRunEnds ==
  /\ [](pc = "traverse" => WalkReturns)
  /\ [](pc = "render_tree" => RenderReturns)
  /\ (pc = "reading") ~> RunEnded

\* A run of two reads has ended after rendering a tree with lines.
C30_Witness ==
  /\ RunEnded
  /\ Len(futures) = 2
  /\ TreeRendered
  /\ tree_output[1].lines # <<>>

====
